---- MODULE Spec2Model ----
(***************************************************************************)
(* Model of the Yiddish syllabifier and hyphenator of                      *)
(* src/src/yiddish_syllable_boundaries.py (class YiddishSyllabifier).      *)
(*                                                                         *)
(* A Python str is a sequence of Unicode code points, modelled as a        *)
(* sequence of naturals; len() is Len.  The instance fields self.system    *)
(* and self.yiddish_patterns are state; syllabify() and hyphenate() are    *)
(* the operations.  Both are pure functions of the instance and their      *)
(* arguments, so each is an operator, and an action applies it to an       *)
(* argument drawn from a bounded set and records the call.                 *)
(***************************************************************************)
EXTENDS Naturals, Integers, Sequences, FiniteSets, TLC

(***************************************************************************)
(* Code points                                                             *)
(***************************************************************************)
\* Hebrew letters U+05D0..U+05EA
Alef == 1488
Beys == 1489
Giml == 1490
Daled == 1491
Hey == 1492
Vov == 1493
Zayen == 1494
Khes == 1495
Tes == 1496
Yud == 1497
LangerKhof == 1498
Khof == 1499
Lamed == 1500
ShlosMem == 1501
Mem == 1502
LangerNun == 1503
Nun == 1504
Samekh == 1505
Ayin == 1506
LangerFey == 1507
Fey == 1508
LangerTsadek == 1509
Tsadek == 1510
Kuf == 1511
Reysh == 1512
Shin == 1513
Sof == 1514
\* Yiddish ligatures U+05F0..U+05F2
TsveyVovn == 1520
VovYud == 1521
TsveyYudn == 1522
\* points (combining marks) and the makef
Khirik == 1460
Pasekh == 1463
Komets == 1464
Dagesh == 1468
Rafe == 1471
SinDot == 1474
Makef == 1470
\* precomposed presentation forms U+FB1D..U+FB4E
KhirikYud == 64285
PasekhTsveyYudn == 64287
Sin == 64299
PasekhAlef == 64302
KometsAlef == 64303
MelupmVov == 64309
Kof == 64315
Pey == 64324
Tof == 64330
Veys == 64332
FeyRafe == 64334
\* Latin stand-ins used by the phonological rewrite
ConsonantY == 106
SyllabicNun == 326
SyllabicLangerNun == 325
SyllabicLamed == 316
ShtumerAlef == 7841
\* ASCII
Space == 32
Newline == 10
Bar == 124
Dash == 45
LatinX == 120

(***************************************************************************)
(* Python str and re primitives                                            *)
(***************************************************************************)
\* str.startswith(p)
StartsWith(s, p) == Len(p) <= Len(s) /\ SubSeq(s, 1, Len(p)) = p

\* s[n:]
Drop(s, n) == SubSeq(s, n + 1, Len(s))

\* x in s, for a str x (substring test)
ContainsSeq(s, x) == \E i \in 0..(Len(s) - Len(x)) : SubSeq(s, i + 1, i + Len(x)) = x

\* re.sub(pat, rep, s) for a literal, non-empty pat: leftmost matches, not
\* overlapping, found in one scan of the original s
RECURSIVE re_sub(_, _, _)
re_sub(pat, rep, s) ==
  IF s = <<>> THEN <<>>
  ELSE IF StartsWith(s, pat) THEN rep \o re_sub(pat, rep, Drop(s, Len(pat)))
  ELSE <<Head(s)>> \o re_sub(pat, rep, Tail(s))

\* \w of a Python str pattern: str.isalnum() or "_".  Letters and digits are
\* word characters, the Hebrew points (category Mn), the makef and the ASCII
\* punctuation are not.  Listed for the code point ranges the tables use.
IsWordChar(c) ==
  \/ c \in 48..57 \/ c \in 65..90 \/ c = 95 \/ c \in 97..122
  \/ c \in {SyllabicLamed, SyllabicLangerNun, SyllabicNun, ShtumerAlef}
  \/ c \in Alef..Sof
  \/ c \in TsveyVovn..TsveyYudn
  \/ c \in {KhirikYud, PasekhTsveyYudn, Sin, PasekhAlef, KometsAlef,
            MelupmVov, Kof, Pey, Tof, Veys, FeyRafe}

\* \s of a Python str pattern, for the white space the model uses
IsSpace(c) == c \in {Space, Newline}

\* re.sub(r'\b' + pat, rep, s): as re_sub, but pat matches only at a word
\* boundary; pat starts with a word character, so the boundary is the start
\* of s or a position after a non-word character.  prevWord tells whether
\* the code point before s is a word character.
RECURSIVE re_sub_b(_, _, _, _)
re_sub_b(pat, rep, s, prevWord) ==
  IF s = <<>> THEN <<>>
  ELSE IF ~prevWord /\ StartsWith(s, pat)
       THEN rep \o re_sub_b(pat, rep, Drop(s, Len(pat)), IsWordChar(pat[Len(pat)]))
  ELSE <<Head(s)>> \o re_sub_b(pat, rep, Tail(s), IsWordChar(Head(s)))

\* apply a table of (pattern, replacement) pairs in order, each to the result
\* of the one before: for letter in table: string = re.sub(letter[0], letter[1], string)
RECURSIVE SubAll(_, _)
SubAll(table, s) ==
  IF table = <<>> THEN s
  ELSE SubAll(Tail(table), re_sub(Head(table)[1], Head(table)[2], s))

(***************************************************************************)
(* __combine_chars, __separate_chars                                       *)
(***************************************************************************)
combine_table ==
  << << <<Alef, Pasekh>>, <<PasekhAlef>> >>,
     << <<Alef, Komets>>, <<KometsAlef>> >>,
     << <<Beys, Rafe>>, <<Veys>> >>,
     << <<Vov, Dagesh>>, <<MelupmVov>> >>,
     << <<Vov, Vov>>, <<TsveyVovn>> >>,
     << <<Vov, Yud>>, <<VovYud>> >>,
     << <<Yud, Khirik>>, <<KhirikYud>> >>,
     << <<Yud, Yud>>, <<TsveyYudn>> >>,
     << <<TsveyYudn, Pasekh>>, <<PasekhTsveyYudn>> >>,
     << <<Khof, Dagesh>>, <<Kof>> >>,
     << <<Fey, Dagesh>>, <<Pey>> >>,
     << <<Fey, Rafe>>, <<FeyRafe>> >>,
     << <<Shin, SinDot>>, <<Sin>> >>,
     << <<Sof, Dagesh>>, <<Tof>> >> >>

combine_chars(string) == SubAll(combine_table, string)

separate_table ==
  << << <<PasekhAlef>>, <<Alef, Pasekh>> >>,
     << <<KometsAlef>>, <<Alef, Komets>> >>,
     << <<Veys>>, <<Beys, Rafe>> >>,
     << <<MelupmVov>>, <<Vov, Dagesh>> >>,
     << <<KhirikYud>>, <<Yud, Khirik>> >>,
     << <<PasekhTsveyYudn>>, <<TsveyYudn, Pasekh>> >>,
     << <<Kof>>, <<Khof, Dagesh>> >>,
     << <<Pey>>, <<Fey, Dagesh>> >>,
     << <<FeyRafe>>, <<Fey, Rafe>> >>,
     << <<Sin>>, <<Shin, SinDot>> >>,
     << <<Tof>>, <<Sof, Dagesh>> >> >>

separate_chars(string) == SubAll(separate_table, string)

(***************************************************************************)
(* __replace_consonant_j_syllabic_nl                                       *)
(***************************************************************************)
\* re.sub(r'\b' + alef + v, shtumer alef + v, string) for the six vowel
\* signs v, in order
shtumer_alef_table == <<Yud, Vov, TsveyYudn, VovYud, PasekhTsveyYudn, MelupmVov>>

RECURSIVE SubShtumerAlef(_, _)
SubShtumerAlef(table, s) ==
  IF table = <<>> THEN s
  ELSE SubShtumerAlef(Tail(table),
         re_sub_b(<<Alef, Head(table)>>, <<ShtumerAlef, Head(table)>>, s, FALSE))

\* re.sub of tsvey vovn, alef, one of (vov, vov yud, melupm vov): the alef
\* becomes the shtumer alef
RECURSIVE SubAlefAfterTsveyVovn(_)
SubAlefAfterTsveyVovn(s) ==
  IF s = <<>> THEN <<>>
  ELSE IF Len(s) >= 3 /\ s[1] = TsveyVovn /\ s[2] = Alef
          /\ s[3] \in {Vov, VovYud, MelupmVov}
       THEN <<TsveyVovn, ShtumerAlef, s[3]>> \o SubAlefAfterTsveyVovn(Drop(s, 3))
  ELSE <<Head(s)>> \o SubAlefAfterTsveyVovn(Tail(s))

\* re.sub(yud + v, 'j' + v, string) for the nine contexts v, in order
consonant_j_table ==
  <<PasekhAlef, KometsAlef, Alef, Vov, Ayin, KhirikYud, PasekhTsveyYudn,
    TsveyYudn, VovYud>>

RECURSIVE SubConsonantJ(_, _)
SubConsonantJ(table, s) ==
  IF table = <<>> THEN s
  ELSE SubConsonantJ(Tail(table),
         re_sub(<<Yud, Head(table)>>, <<ConsonantY, Head(table)>>, s))

\* the alternatives of the look-behind and look-ahead of the syllabic
\* nun/lamed patterns, each one code point long
adjacent_vowels ==
  {PasekhAlef, Ayin, Yud, Alef, KometsAlef, Vov, TsveyYudn, PasekhTsveyYudn,
   VovYud, KhirikYud, MelupmVov}

\* re.sub(r'(?<!\s|V)' + c + r'(?!V)', rep, s), the look-ahead only if ahead:
\* c is one code point and so is rep, and both look-arounds read the original
\* s, so every position is decided independently
SubSyllabic(s, c, rep, ahead) ==
  [i \in 1..Len(s) |->
     IF /\ s[i] = c
        /\ (i = 1 \/ (~IsSpace(s[i-1]) /\ s[i-1] \notin adjacent_vowels))
        /\ (~ahead \/ i = Len(s) \/ s[i+1] \notin adjacent_vowels)
     THEN rep ELSE s[i]]

\* if string.startswith(syllabic nun) ... elif string.startswith(syllabic
\* lamed) ...
UndoInitialSyllabic(s) ==
  IF StartsWith(s, <<SyllabicNun>>) THEN <<Nun>> \o Drop(s, 1)
  ELSE IF StartsWith(s, <<SyllabicLamed>>) THEN <<Lamed>> \o Drop(s, 1)
  ELSE s

replace_consonant_j_syllabic_nl(string) ==
  LET s1 == SubShtumerAlef(shtumer_alef_table, string)
      s2 == SubAlefAfterTsveyVovn(s1)
      s3 == SubConsonantJ(consonant_j_table, s2)
      s4 == SubSyllabic(s3, Nun, SyllabicNun, TRUE)
      s5 == SubSyllabic(s4, LangerNun, SyllabicLangerNun, FALSE)
      s6 == SubSyllabic(s5, Lamed, SyllabicLamed, TRUE)
  IN  UndoInitialSyllabic(s6)

(***************************************************************************)
(* __generate_yiddish_patterns                                             *)
(***************************************************************************)
\* mapping from transliterations to Yiddish (combined) characters; 'Zh' is
\* the two letters zayen and shin
transliterations ==
  [ A   |-> {<<PasekhAlef>>},
    Ay  |-> {<<PasekhTsveyYudn>>},
    B   |-> {<<Beys>>},
    D   |-> {<<Daled>>},
    E   |-> {<<Ayin>>},
    Ey  |-> {<<TsveyYudn>>},
    F   |-> {<<FeyRafe>>, <<Fey>>},
    G   |-> {<<Giml>>},
    H   |-> {<<Hey>>},
    I   |-> {<<KhirikYud>>, <<Yud>>},
    K   |-> {<<Kuf>>, <<Kof>>},
    Kh  |-> {<<Khof>>, <<Khes>>},
    L   |-> {<<Lamed>>},
    M   |-> {<<Mem>>},
    N   |-> {<<Nun>>},
    O   |-> {<<KometsAlef>>},
    Oy  |-> {<<VovYud>>},
    P   |-> {<<Pey>>},
    R   |-> {<<Reysh>>},
    S   |-> {<<Samekh>>, <<Sin>>, <<Sof>>},
    Sh  |-> {<<Shin>>},
    T   |-> {<<Tes>>, <<Tof>>},
    Ts  |-> {<<Tsadek>>},
    U   |-> {<<Vov>>, <<MelupmVov>>},
    V   |-> {<<TsveyVovn>>, <<Veys>>},
    Y   |-> {<<ConsonantY>>},
    Z   |-> {<<Zayen>>},
    Zh  |-> {<<Zayen, Shin>>} ]

vowels ==
  {Alef, PasekhAlef, Ayin, Yud, KometsAlef, Vov, TsveyYudn, PasekhTsveyYudn,
   VovYud, KhirikYud, MelupmVov, SyllabicNun, SyllabicLangerNun, SyllabicLamed}

consonants ==
  {ShtumerAlef, Beys, Veys, Giml, Daled, Hey, TsveyVovn, Zayen, Khes, Tes,
   ConsonantY, Kof, Khof, LangerKhof, Lamed, Mem, ShlosMem, Nun, LangerNun,
   Samekh, Ayin, Pey, FeyRafe, Fey, LangerFey, Tsadek, LangerTsadek, Kuf,
   Reysh, Shin, Sin, Tof, Sof}

\* onsets adapted from Jacobs (2005:115-7)
onsets_jacobs ==
  << <<"P", "T">>, <<"P", "L">>, <<"P", "R">>, <<"P", "N">>, <<"P", "S">>,
     <<"P", "Sh">>, <<"P", "Kh">>, <<"P", "L">>, <<"P", "K">>, <<"T", "R">>,
     <<"T", "M">>, <<"B", "D">>, <<"B", "L">>, <<"B", "R">>, <<"B", "G">>,
     <<"D", "L">>, <<"D", "N">>, <<"T", "N">>, <<"T", "L">>, <<"T", "K">>,
     <<"T", "V">>, <<"T", "F">>, <<"T", "Kh">>, <<"D", "R">>, <<"D", "V">>,
     <<"K", "N">>, <<"K", "T">>, <<"K", "D">>, <<"K", "L">>, <<"K", "S">>,
     <<"K", "R">>, <<"K", "V">>, <<"G", "N">>, <<"G", "L">>, <<"G", "R">>,
     <<"G", "V">>, <<"G", "Z">>, <<"F", "L">>, <<"F", "R">>, <<"V", "L">>,
     <<"V", "R">>, <<"S", "M">>, <<"S", "F">>, <<"S", "V">>, <<"S", "N">>,
     <<"S", "T">>, <<"S", "D">>, <<"S", "K">>, <<"S", "P">>, <<"S", "Kh">>,
     <<"S", "R">>, <<"S", "L">>, <<"Z", "M">>, <<"Z", "N">>, <<"Z", "G">>,
     <<"Z", "R">>, <<"Z", "L">>, <<"Z", "B">>, <<"Sh", "M">>, <<"Sh", "V">>,
     <<"Sh", "F">>, <<"Sh", "N">>, <<"Sh", "T">>, <<"Sh", "P">>,
     <<"Sh", "K">>, <<"Sh", "Kh">>, <<"Sh", "R">>, <<"Sh", "L">>,
     <<"Sh", "T", "Sh">>, <<"Zh", "M">>, <<"Zh", "L">>, <<"Kh", "M">>,
     <<"Kh", "V">>, <<"Kh", "Sh">>, <<"Kh", "S">>, <<"Kh", "L">>,
     <<"Kh", "K">>, <<"Kh", "Ts">>, <<"Kh", "N">>, <<"Kh", "R">>,
     <<"Ts", "L">>, <<"Ts", "N">>, <<"Ts", "D">>, <<"Ts", "V">>,
     <<"T", "Sh", "V">>, <<"M", "R">>, <<"M", "L">>, <<"Sh", "P", "R">>,
     <<"Sh", "T", "R">>, <<"Sh", "K", "R">>, <<"Sh", "P", "L">>,
     <<"Sh", "K", "L">>, <<"S", "P", "R">>, <<"S", "T", "R">>,
     <<"S", "K", "R">>, <<"S", "P", "L">>, <<"S", "K", "L">>, <<"T", "Sh">>,
     <<"D", "Zh">> >>

\* onsets according to the syllabification rule of Yankev Viler
onsets_viler ==
  << <<"P", "L">>, <<"P", "R">>, <<"T", "L">>, <<"T", "R">>, <<"B", "L">>,
     <<"B", "R">>, <<"D", "R">>, <<"K", "L">>, <<"K", "N">>, <<"K", "R">>,
     <<"G", "L">>, <<"G", "R">>, <<"F", "L">>, <<"F", "R">>, <<"S", "M">>,
     <<"S", "N">>, <<"S", "T">>, <<"S", "K">>, <<"S", "P">>, <<"S", "L">>,
     <<"Sh", "M">>, <<"Sh", "N">>, <<"Sh", "T">>, <<"Sh", "P">>,
     <<"Sh", "K">>, <<"Sh", "R">>, <<"Sh", "L">>, <<"Sh", "P", "R">>,
     <<"Sh", "T", "R">>, <<"Sh", "K", "R">>, <<"Sh", "P", "L">>,
     <<"Sh", "K", "L">>, <<"S", "P", "R">>, <<"S", "T", "R">>,
     <<"S", "K", "R">>, <<"S", "P", "L">>, <<"S", "K", "L">>, <<"T", "Sh">>,
     <<"D", "Zh">> >>

\* itertools.product over the spellings of an onset's phonemes; an onset is
\* kept as the sequence of its letters (the code joins them with ' ')
RECURSIVE Product(_)
Product(phonemes) ==
  IF phonemes = <<>> THEN {<<>>}
  ELSE {a \o b : a \in transliterations[Head(phonemes)], b \in Product(Tail(phonemes))}

\* all_onsets: every spelling of every onset, the null onset and all
\* singleton consonants
all_onsets(onsets) ==
  UNION {Product(onsets[i]) : i \in 1..Len(onsets)}
    \cup {<<>>} \cup {<<c>> : c \in consonants}

prefixes_declared ==
  << <<Alef, Pasekh, Daled, Vov, Reysh, Khof>>,
     <<Alef, Daled, Vov, Reysh, Khof>>,
     <<Daled, Vov, Reysh, Khof>>,
     <<Alef, Pasekh, Hey, Yud, Nun>>,
     <<Alef, Hey, Yud, Nun>>,
     <<Alef, Pasekh, Hey, Ayin, Reysh>>,
     <<Alef, Hey, Ayin, Reysh>>,
     <<Alef, Pasekh, TsveyVovn, Ayin, Kuf>>,
     <<Alef, TsveyVovn, Ayin, Kuf>>,
     <<Alef, VovYud, Samekh>>,
     <<Alef, Vov, Mem>>,
     <<Alef, Vov, Nun, Tes, Ayin, Reysh>>,
     <<Alef, VovYud, Fey, Rafe>>,
     <<Alef, VovYud, Fey>>,
     <<Alef, Pasekh, Nun, Tes, Kuf, Ayin, Giml, Nun>>,
     <<Alef, Nun, Tes, Kuf, Ayin, Giml, Nun>>,
     <<Alef, Pasekh, Kuf, Ayin, Giml, Nun>>,
     <<Alef, Kuf, Ayin, Giml, Nun>>,
     <<Kuf, Ayin, Giml, Nun>>,
     <<Alef, Yud, Beys, Ayin, Reysh>>,
     <<Alef, TsveyYudn, Pasekh, Nun>>,
     <<Alef, TsveyYudn, Nun>>,
     <<Alef, Komets, Nun>>,
     <<Alef, Nun>>,
     <<Alef, Pasekh, Nun, Yud, Daled, Ayin, Reysh>>,
     <<Alef, Nun, Yud, Daled, Ayin, Reysh>>,
     <<Alef, Komets, Fey, Dagesh>>,
     <<Alef, Fey>>,
     <<Alef, Pasekh, Reysh, Alef, Komets, Fey, Dagesh>>,
     <<Alef, Reysh, Alef, Komets, Fey>>,
     <<Alef, Reysh, Alef, Fey>>,
     <<Alef, Pasekh, Reysh, VovYud, Samekh>>,
     <<Alef, Reysh, VovYud, Samekh>>,
     <<Alef, Pasekh, Reysh, Vov, Mem>>,
     <<Alef, Reysh, Vov, Mem>>,
     <<Alef, Pasekh, Reysh, VovYud, Fey, Rafe>>,
     <<Alef, Pasekh, Reysh, VovYud, Fey>>,
     <<Alef, Reysh, VovYud, Fey>>,
     <<Alef, Pasekh, Reysh, Yud, Beys, Ayin, Reysh>>,
     <<Alef, Reysh, Yud, Beys, Ayin, Reysh>>,
     <<Alef, Pasekh, Reysh, TsveyYudn, Pasekh, Nun>>,
     <<Alef, Pasekh, Reysh, TsveyYudn, Nun>>,
     <<Alef, Reysh, TsveyYudn, Nun>>,
     <<Beys, TsveyYudn, Pasekh>>,
     <<Beys, TsveyYudn>>,
     <<Mem, Yud, Tes>>,
     <<Nun, Alef, Komets, Khof>>,
     <<Nun, Alef, Khof>>,
     <<Fey, Rafe, Vov, Nun, Alef, Pasekh, Nun, Daled, Ayin, Reysh>>,
     <<Fey, Vov, Nun, Alef, Pasekh, Nun, Daled, Ayin, Reysh>>,
     <<Fey, Vov, Nun, Alef, Nun, Daled, Ayin, Reysh>>,
     <<Fey, Rafe, Alef, Pasekh, Nun, Alef, Pasekh, Nun, Daled, Ayin, Reysh>>,
     <<Fey, Alef, Pasekh, Nun, Alef, Pasekh, Nun, Daled, Ayin, Reysh>>,
     <<Fey, Alef, Nun, Alef, Nun, Daled, Ayin, Reysh>>,
     <<Fey, Rafe, Alef, Komets, Reysh>>,
     <<Fey, Alef, Komets, Reysh>>,
     <<Fey, Alef, Reysh>>,
     <<Fey, Rafe, Alef, Komets, Reysh, VovYud, Samekh>>,
     <<Fey, Alef, Komets, Reysh, VovYud, Samekh>>,
     <<Fey, Alef, Reysh, VovYud, Samekh>>,
     <<Alef, Pasekh, Fey, Rafe, Ayin, Reysh>>,
     <<Alef, Pasekh, Fey, Ayin, Reysh>>,
     <<Alef, Fey, Ayin, Reysh>>,
     <<Alef, Pasekh, Fey, Rafe, Yud, Reysh>>,
     <<Alef, Pasekh, Fey, Yud, Reysh>>,
     <<Alef, Fey, Yud, Reysh>>,
     <<Fey, Rafe, Yud, Reysh>>,
     <<Fey, Yud, Reysh>>,
     <<Tsadek, Vov, Zayen, Alef, Pasekh, Mem, Ayin, Nun>>,
     <<Tsadek, Vov, Zayen, Alef, Mem, Ayin, Nun>>,
     <<Tsadek, Vov, Nun, VovYud, Fey, Rafe>>,
     <<Tsadek, Vov, Nun, VovYud, Fey>>,
     <<Tsadek, Vov, Reysh, Yud, Kuf>>,
     <<Tsadek, Vov>>,
     <<Kuf, Reysh, Yud, Kuf>>,
     <<Kuf, Alef, Pasekh, Reysh, Yud, Kuf>>,
     <<Kuf, Alef, Reysh, Yud, Kuf>>,
     <<Fey, Rafe, Alef, Pasekh, Reysh, Beys, TsveyYudn, Pasekh>>,
     <<Fey, Alef, Pasekh, Reysh, Beys, TsveyYudn>>,
     <<Fey, Alef, Reysh, Beys, TsveyYudn>>,
     <<Alef, Pasekh, Nun, Tes>>,
     <<Alef, Nun, Tes>>,
     <<Beys, Alef, Pasekh>>,
     <<Beys, Alef>>,
     <<Giml, Ayin>>,
     <<Daled, Ayin, Reysh>>,
     <<Fey, Rafe, Alef, Pasekh, Reysh>>,
     <<Fey, Alef, Pasekh, Reysh>>,
     <<Fey, Alef, Reysh>>,
     <<Tsadek, Ayin>> >>

\* prefixes = tuple(map(__combine_chars, prefixes))
prefixes_combined ==
  [i \in 1..Len(prefixes_declared) |-> combine_chars(prefixes_declared[i])]

Systems == {"jacobs", "viler"}

generate_yiddish_patterns(sys) ==
  [ consonants |-> consonants,
    vowels     |-> vowels,
    onsets     |-> all_onsets(IF sys = "jacobs" THEN onsets_jacobs
                              ELSE IF sys = "viler" THEN onsets_viler
                              ELSE <<>>),
    prefixes   |-> prefixes_combined ]

(***************************************************************************)
(* syllabifier.syllabify(language, word): Maximum Onset Principle          *)
(***************************************************************************)
\* the least split of the consonants between two nuclei whose right part is
\* an onset of the language (the longest such onset); the whole run is coda
\* if no part of it is an onset
OnsetSplit(language, internuclei) ==
  LET ok == {k \in 0..Len(internuclei) :
               Drop(internuclei, k) \in language.onsets \/ k = Len(internuclei)}
  IN  CHOOSE k \in ok : \A m \in ok : k <= m

\* syllables are emitted left to right, each [onset, nucleus, coda]; the
\* consonants before the first nucleus are its onset, those after the last
\* one its coda.  ok = FALSE is the assignment failure: a letter outside both
\* the consonants and the vowels, or no nucleus at all.
RECURSIVE Assign(_, _, _, _)
Assign(language, word, syllables, internuclei) ==
  IF word = <<>>
  THEN IF syllables = <<>>
       THEN [ok |-> FALSE, syllables |-> <<>>]
       ELSE [ok |-> TRUE,
             syllables |-> [syllables EXCEPT ![Len(syllables)].coda = @ \o internuclei]]
  ELSE LET phoneme == Head(word) IN
       IF phoneme \in language.vowels
       THEN LET split == IF syllables = <<>> THEN 0
                         ELSE OnsetSplit(language, internuclei)
                coda  == SubSeq(internuclei, 1, split)
                onset == Drop(internuclei, split)
                done  == IF syllables = <<>> THEN <<>>
                         ELSE [syllables EXCEPT ![Len(syllables)].coda = @ \o coda]
            IN  Assign(language, Tail(word),
                       Append(done, [onset |-> onset, nucleus |-> <<phoneme>>,
                                     coda |-> <<>>]),
                       <<>>)
       ELSE IF phoneme \notin language.consonants
       THEN [ok |-> FALSE, syllables |-> <<>>]
       ELSE Assign(language, Tail(word), syllables, Append(internuclei, phoneme))

syllabifier_syllabify(language, word) == Assign(language, word, <<>>, <<>>)

(***************************************************************************)
(* add_syllable_boundaries                                                 *)
(***************************************************************************)
\* the tuple of veys, khes, kof, sin, tof, sof, each as written in the source: the
\* pointed letters are a letter followed by its point
disallowed ==
  {<<Beys, Rafe>>, <<Khes>>, <<Khof, Dagesh>>, <<Shin, SinDot>>,
   <<Sof, Dagesh>>, <<Sof>>}

\* any(x in word for x in (...))
HasDisallowed(word) == \E x \in disallowed : ContainsSeq(word, x)

\* re.findall(r'\w+|\W+', word): the maximal runs of word characters and of
\* other characters, in order
RECURSIVE RunLength(_, _)
RunLength(s, isWord) ==
  IF s = <<>> \/ IsWordChar(Head(s)) # isWord THEN 0
  ELSE 1 + RunLength(Tail(s), isWord)

RECURSIVE Subwords(_)
Subwords(word) ==
  IF word = <<>> THEN <<>>
  ELSE LET n == RunLength(word, IsWordChar(Head(word)))
       IN  <<SubSeq(word, 1, n)>> \o Subwords(Drop(word, n))

\* my_prefix = None
None == <<>>

\* the loop without the test "not subword == prefix"
PrefixLoop_NoEqualityTest(prefixes, subword) ==
  LET passes == {i \in 1..Len(prefixes) : StartsWith(subword, prefixes[i])}
  IN  IF passes = {} THEN [my_prefix |-> None, subword |-> subword]
      ELSE LET prefix == prefixes[CHOOSE i \in passes : \A k \in passes : i <= k]
           IN  [my_prefix |-> prefix, subword |-> Drop(subword, Len(prefix))]

\* for prefix in prefixes: if subword.startswith(prefix) and not subword ==
\* prefix: my_prefix = prefix; subword = subword.removeprefix(prefix); break
\* The loop stops at the first prefix of the table that passes the test.
PrefixLoop(prefixes, subword) ==
  LET passes == {i \in 1..Len(prefixes) :
                   StartsWith(subword, prefixes[i]) /\ ~(subword = prefixes[i])}
  IN  IF passes = {} THEN [my_prefix |-> None, subword |-> subword]
      ELSE LET prefix == prefixes[CHOOSE i \in passes : \A k \in passes : i <= k]
           IN  [my_prefix |-> prefix, subword |-> Drop(subword, Len(prefix))]

\* if subword.startswith(prefixes): for prefix in prefixes: ...
StripPrefix(prefixes, subword) ==
  IF \E i \in 1..Len(prefixes) : StartsWith(subword, prefixes[i])
  THEN PrefixLoop(prefixes, subword)
  ELSE [my_prefix |-> None, subword |-> subword]

\* the boundary after a first syllable of any length: the test len(result) >
\* 0 in place of len(result) > 1
AddBoundary_AnyLength(result) == IF Len(result) > 0 THEN Append(result, Bar) ELSE result

\* Don't allow a one character syllable at start of word
AddBoundary(result) == IF Len(result) > 1 THEN Append(result, Bar) ELSE result

\* for syllable in syllables: result += onset, nucleus, coda; then the
\* boundary
RECURSIVE JoinSyllables(_, _)
JoinSyllables(syllables, result) ==
  IF syllables = <<>> THEN result
  ELSE LET syllable == Head(syllables)
       IN  JoinSyllables(Tail(syllables),
             AddBoundary(result \o syllable.onset \o syllable.nucleus \o syllable.coda))

\* change the special Latin chars back to Yiddish chars
restore_table ==
  << << <<ConsonantY>>, <<Yud>> >>,
     << <<SyllabicNun>>, <<Nun>> >>,
     << <<SyllabicLangerNun>>, <<LangerNun>> >>,
     << <<SyllabicLamed>>, <<Lamed>> >>,
     << <<ShtumerAlef>>, <<Alef>> >> >>

\* re.sub(r'\|$', '', result)
DropFinalBar(result) ==
  IF result # <<>> /\ result[Len(result)] = Bar
  THEN SubSeq(result, 1, Len(result) - 1) ELSE result

\* list(s): the one-character strings of s
List(s) == [i \in 1..Len(s) |-> <<s[i]>>]

\* result: the syllables joined, the prefix put back, the Latin chars changed
\* back, the final boundary removed
Result(my_prefix, joined) ==
  DropFinalBar(SubAll(restore_table,
    IF my_prefix # None THEN my_prefix \o <<Bar>> \o joined ELSE joined))

\* the body of the try for one subword: prefix, rewrite, assignment, result.
\* failed tells that the assignment raised; subword is then the value the
\* variable subword has in the except clause.
SyllabifySubword(patterns, subword) ==
  LET Assigned(stripped, rewritten, assignment) ==
        [ run       |-> subword,
          my_prefix |-> stripped.my_prefix,
          stem      |-> stripped.subword,
          subword   |-> rewritten,
          failed    |-> ~assignment.ok,
          syllables |-> assignment.syllables,
          result    |-> Result(stripped.my_prefix,
                               JoinSyllables(assignment.syllables, <<>>)) ]
      Rewritten(stripped, rewritten) ==
        Assigned(stripped, rewritten, syllabifier_syllabify(patterns, rewritten))
      Stripped(stripped) ==
        Rewritten(stripped, replace_consonant_j_syllabic_nl(stripped.subword))
  IN  Stripped(StripPrefix(patterns.prefixes, subword))

\* for subword in subwords: ...  Returns subwords_syllabified and, in runs,
\* the record of every subword that matched wordPattern.
RECURSIVE SubwordLoop(_, _, _, _)
SubwordLoop(patterns, subwords, subwords_syllabified, runs) ==
  IF subwords = <<>>
  THEN [subwords_syllabified |-> subwords_syllabified, runs |-> runs]
  ELSE LET subword == Head(subwords)
           Tried(r) ==
             IF r.failed
             THEN SubwordLoop(patterns, Tail(subwords), List(r.subword), Append(runs, r))
             ELSE SubwordLoop(patterns, Tail(subwords),
                              Append(subwords_syllabified, r.result), Append(runs, r))
       IN  IF IsWordChar(subword[1])
           THEN Tried(SyllabifySubword(patterns, subword))
           ELSE SubwordLoop(patterns, Tail(subwords),
                            Append(subwords_syllabified, subword), runs)

\* the value returned is a str (the word itself) or a list of str; the caller
\* only joins it, so the str is given as the list of its characters
add_syllable_boundaries(patterns, word) ==
  IF HasDisallowed(word)
  THEN [subwords_syllabified |-> List(word), runs |-> <<>>]
  ELSE SubwordLoop(patterns, Subwords(word), <<>>, <<>>)

\* ''.join(strings)
RECURSIVE Join(_)
Join(strings) == IF strings = <<>> THEN <<>> ELSE Head(strings) \o Join(Tail(strings))

(***************************************************************************)
(* syllabify                                                               *)
(***************************************************************************)
\* the value returned, with the record of the runs of add_syllable_boundaries
SyllabifyCall(patterns, word) ==
  LET Returned(syllabified_words) ==
        [ value |-> separate_chars(Join(syllabified_words.subwords_syllabified)),
          runs  |-> syllabified_words.runs ]
  IN  Returned(add_syllable_boundaries(patterns, combine_chars(word)))

syllabify(patterns, word) == SyllabifyCall(patterns, word).value

(***************************************************************************)
(* hyphenate                                                               *)
(***************************************************************************)
\* s.split(sep) for a one code point sep: the pieces between the separators,
\* empty pieces kept
RECURSIVE SplitOn(_, _, _)
SplitOn(s, sep, piece) ==
  IF s = <<>> THEN <<piece>>
  ELSE IF Head(s) = sep THEN <<piece>> \o SplitOn(Tail(s), sep, <<>>)
  ELSE SplitOn(Tail(s), sep, Append(piece, Head(s)))

\* text.splitlines(), for the line boundary '\n': a final line boundary does
\* not open another line
splitlines(text) ==
  LET pieces == SplitOn(text, Newline, <<>>)
  IN  IF pieces[Len(pieces)] = <<>> THEN SubSeq(pieces, 1, Len(pieces) - 1)
      ELSE pieces

\* line.split(): the maximal runs without white space
split(line) ==
  LET pieces == SplitOn(line, Space, <<>>)
  IN  SelectSeq(pieces, LAMBDA p : p # <<>>)

\* lengths: the running total of the syllable lengths
RECURSIVE Lengths(_, _)
Lengths(syllables, total_length) ==
  IF syllables = <<>> THEN <<>>
  ELSE <<total_length + Len(Head(syllables))>>
         \o Lengths(Tail(syllables), total_length + Len(Head(syllables)))

\* next((i for i in range(len(lengths) - 1, -1, -1) if ... <= line_length),
\* None), as a 1-based index, 0 for None
LastIndex(lengths, current_chunk, line_length) ==
  LET fits == {i \in 1..Len(lengths) : Len(current_chunk) + lengths[i] + 2 <= line_length}
  IN  IF fits = {} THEN 0 ELSE CHOOSE i \in fits : \A k \in fits : k <= i

\* chunks.append(current_chunk) when no syllable of the word fits
EmitUnbroken(chunks, current_chunk) == Append(chunks, current_chunk)

\* for word in words: ...; if current_chunk: chunks.append(current_chunk)
RECURSIVE WordLoop(_, _, _, _, _)
WordLoop(patterns, words, current_chunk, chunks, line_length) ==
  IF words = <<>>
  THEN IF current_chunk # <<>> THEN Append(chunks, current_chunk) ELSE chunks
  ELSE LET word == Head(words) IN
       IF Len(current_chunk) + Len(word) + 1 <= line_length
       THEN WordLoop(patterns, Tail(words), current_chunk \o <<Space>> \o word,
                     chunks, line_length)
       ELSE LET Break(syllables, last_index) ==
                  IF last_index # 0
                  THEN WordLoop(patterns, Tail(words),
                         Join(SubSeq(syllables, last_index + 1, Len(syllables))),
                         Append(chunks, current_chunk \o <<Space>>
                                          \o Join(SubSeq(syllables, 1, last_index))
                                          \o <<Makef>>),
                         line_length)
                  ELSE WordLoop(patterns, Tail(words), word,
                                EmitUnbroken(chunks, current_chunk), line_length)
                Syllables(syllables) ==
                  Break(syllables,
                        LastIndex(Lengths(syllables, 0), current_chunk, line_length))
            IN  Syllables(SplitOn(syllabify(patterns, word), Bar, <<>>))

\* the chunks of one line of the text: current_chunk starts empty on every
\* line and the chunks of a line are appended after those of the lines before
HyphenateLine(patterns, line, line_length) ==
  WordLoop(patterns, split(line), <<>>, <<>>, line_length)

\* for line in lines: ..., as the chunks each line adds
HyphenateLines(patterns, text, line_length) ==
  LET lines == splitlines(text)
  IN  [i \in 1..Len(lines) |-> HyphenateLine(patterns, lines[i], line_length)]

hyphenate(patterns, text, line_length) ==
  Join(HyphenateLines(patterns, text, line_length))

(***************************************************************************)
(* Bounds and argument sets                                                *)
(***************************************************************************)
\* a word given to syllabify is a registered prefix or nothing, followed by
\* at most MaxLen letters
MaxLen == 3

\* a text given to hyphenate has at most MaxTextLen code points, and the line
\* length is at most MaxLineLength
MaxTextLen == 5
MaxLineLength == 5

\* the letters words are made of: consonants, vowels, the nun in both forms,
\* a letter of the disallowed set that is one code point and one that is a
\* letter with its point, a letter that is no phoneme, and a punctuation mark
Letters ==
  {<<Giml>>, <<Ayin>>, <<Nun>>, <<LangerNun>>, <<Yud>>, <<Khes>>,
   <<Beys, Rafe>>, <<LatinX>>, <<Dash>>}

\* the registered prefixes a word may start with, besides those its letters
\* spell: "an" (listed before "ant"), "ant" and "ge", as written in the table
Heads == {<<>>, <<Alef, Nun>>, <<Alef, Nun, Tes>>, <<Giml, Ayin>>}

RECURSIVE Stems(_)
Stems(n) ==
  IF n = 0 THEN {<<>>}
  ELSE LET shorter == Stems(n - 1)
       IN  shorter \cup {s \o l : s \in shorter, l \in Letters}

Words == {h \o s : h \in Heads, s \in Stems(MaxLen)} \ {<<>>}

TextAlphabet == {Giml, Ayin, LatinX, Space, Newline}

RECURSIVE Texts(_)
Texts(n) ==
  IF n = 0 THEN {<<>>}
  ELSE LET shorter == Texts(n - 1)
       IN  shorter \cup {Append(t, c) : t \in shorter, c \in TextAlphabet}

\* the texts given to hyphenate
AllTexts == Texts(MaxTextLen)

(***************************************************************************)
(* State                                                                   *)
(***************************************************************************)
VARIABLES
  system,            \* self.system
  yiddish_patterns,  \* self.yiddish_patterns
  op,                \* the method called last, "init" after construction
  word,              \* syllabify: the argument
  syllabified,       \* syllabify: the value returned
  runs,              \* syllabify: what happened to every subword of letters
  text,              \* hyphenate: the argument text
  line_length,       \* hyphenate: the argument line_length
  chunks,            \* hyphenate: the value returned
  line_chunks        \* hyphenate: the chunks added by each line of the text

vars == <<system, yiddish_patterns, op, word, syllabified, runs,
          text, line_length, chunks, line_chunks>>

\* YiddishSyllabifier(system)
Init ==
  /\ system \in Systems
  /\ yiddish_patterns = generate_yiddish_patterns(system)
  /\ op = "init"
  /\ word = <<>>
  /\ syllabified = <<>>
  /\ runs = <<>>
  /\ text = <<>>
  /\ line_length = 0
  /\ chunks = <<>>
  /\ line_chunks = <<>>

\* yiddish_syllabifier.syllabify(w).  No method changes the instance, so a
\* call from the state after construction stands for every call.
Syllabify(w) ==
  /\ op = "init"
  /\ op' = "syllabify"
  /\ word' = w
  /\ \E call \in {SyllabifyCall(yiddish_patterns, w)} :
       /\ syllabified' = call.value
       /\ runs' = call.runs
  /\ UNCHANGED <<system, yiddish_patterns, text, line_length, chunks, line_chunks>>

\* yiddish_syllabifier.hyphenate(t, n)
Hyphenate(t, n) ==
  /\ op = "init"
  /\ op' = "hyphenate"
  /\ text' = t
  /\ line_length' = n
  /\ \E added \in {HyphenateLines(yiddish_patterns, t, n)} :
       /\ chunks' = Join(added)
       /\ line_chunks' = added
  /\ UNCHANGED <<system, yiddish_patterns, word, syllabified, runs>>

\* the arguments of the calls that can be made in this state: those of args
\* while no call has been made, none afterwards (the guard of both actions)
Callable(args) == IF op = "init" THEN args ELSE {}

Next == \E w \in Callable(Words) : Syllabify(w)

Spec == Init /\ [][Next]_vars

NextHyphenate ==
  \E t \in Callable(AllTexts), n \in 1..MaxLineLength : Hyphenate(t, n)

SpecHyphenate == Init /\ [][NextHyphenate]_vars

(***************************************************************************)
(* Properties                                                              *)
(***************************************************************************)
\* the points that follow a letter in the separated form
Points == {Khirik, Pasekh, Komets, Dagesh, Rafe, SinDot}

\* the Latin stand-ins of the rewrite
Placeholders ==
  {ConsonantY, SyllabicNun, SyllabicLangerNun, SyllabicLamed, ShtumerAlef}

\* the vowel letters of the alphabet (the nuclei that are not stand-ins)
VowelLetters == vowels \ Placeholders

\* a string without its boundary marks
RemoveBars(s) == SelectSeq(s, LAMBDA c : c # Bar)

\* the separated form of a word's letters
SeparatedForm(w) == separate_chars(combine_chars(w))

\* the word has a letter of the disallowed set, composed or not
HasDisallowedLetter(w) == HasDisallowed(separate_chars(w))

HasVowelLetter(w) == \E i \in 1..Len(w) : w[i] \in VowelLetters

\* the words of the lines of the text
InputWords ==
  LET lines == splitlines(text)
  IN  UNION {{split(lines[i])[k] : k \in 1..Len(split(lines[i]))} : i \in 1..Len(lines)}

\* no syllable boundary of the word is a place where the part before it and
\* a hyphen mark fit in n
NoBreakFits(w, n) ==
  LET syllables == SplitOn(syllabify(yiddish_patterns, w), Bar, <<>>)
      lengths   == Lengths(syllables, 0)
  IN  \A i \in 1..(Len(syllables) - 1) : lengths[i] + 1 > n

\* the emitted lines put back together: a line that ends in the hyphen mark
\* loses it and is followed directly by the next line, any other line is
\* followed by a space
RECURSIVE Glue(_)
Glue(cs) ==
  IF cs = <<>> THEN <<>>
  ELSE LET c == Head(cs) IN
       IF c # <<>> /\ c[Len(c)] = Makef
       THEN SubSeq(c, 1, Len(c) - 1) \o Glue(Tail(cs))
       ELSE c \o <<Space>> \o Glue(Tail(cs))

\* C1: every line hyphenate returns is at most line_length long, except a
\* line that is one word of the text which no syllable break makes fit.
C1_LineWidth ==
  op = "hyphenate" =>
    \A i \in 1..Len(chunks) :
      \/ Len(chunks[i]) <= line_length
      \/ chunks[i] \in InputWords /\ NoBreakFits(chunks[i], line_length)

\* C2: for every line of the text, the lines emitted for it, with the hyphen
\* marks removed and the fragments joined, are the words of the line in
\* their order.
C2_Rejoin ==
  op = "hyphenate" =>
    \A i \in 1..Len(line_chunks) :
      split(Glue(line_chunks[i])) = split(splitlines(text)[i])

\* C3: for a word with no disallowed letter and at least one vowel letter,
\* syllabify(word) without its boundary marks is the separated form of the
\* word's letters.
C3_LettersReproduced ==
  (op = "syllabify" /\ ~HasDisallowedLetter(word) /\ HasVowelLetter(combine_chars(word)))
    => RemoveBars(syllabified) = SeparatedForm(word)

\* C4: for a word with a letter of the disallowed set, syllabify returns the
\* word unchanged, code point for code point.
C4_DisallowedUnchanged ==
  (op = "syllabify" /\ HasDisallowedLetter(word)) => syllabified = word

\* C5: when the assignment fails for a run of letters, the output has the
\* run's original letters (its prefix included), has no stand-in letter, and
\* keeps the output of the runs that did not fail.
C5_FailureKeepsLetters ==
  op = "syllabify" =>
    \A i \in 1..Len(runs) :
      runs[i].failed =>
        /\ ContainsSeq(syllabified, separate_chars(runs[i].run))
        /\ \A k \in 1..Len(syllabified) : syllabified[k] \notin Placeholders
        /\ \A k \in 1..Len(runs) :
             ~runs[k].failed => ContainsSeq(syllabified, separate_chars(runs[k].result))

C7_FirstProperPrefix ==
  op = "syllabify" =>
    \A i \in 1..Len(runs) :
      LET r         == runs[i]
          table     == yiddish_patterns.prefixes
          Proper(k) == StartsWith(r.run, table[k]) /\ r.run # table[k]
      IN  /\ r.my_prefix \o r.stem = r.run
          /\ r.my_prefix # r.run
          /\ (r.my_prefix = None) <=> ~(\E k \in 1..Len(table) : Proper(k))
          /\ r.my_prefix # None =>
               \E k \in 1..Len(table) :
                 /\ table[k] = r.my_prefix
                 /\ Proper(k)
                 /\ \A m \in 1..(k - 1) : ~Proper(m)

\* a run from which a prefix was removed although a longer entry of the
\* table, listed later, is also a proper prefix of it
C7_Witness ==
  /\ op = "syllabify"
  /\ \E i \in 1..Len(runs) :
       /\ runs[i].my_prefix # None
       /\ \E k \in 1..Len(yiddish_patterns.prefixes) :
            /\ Len(yiddish_patterns.prefixes[k]) > Len(runs[i].my_prefix)
            /\ StartsWith(runs[i].run, yiddish_patterns.prefixes[k])
            /\ runs[i].run # yiddish_patterns.prefixes[k]

\* C8: in the prefix table of the instance, whenever one prefix is a proper
\* prefix of another, the longer one is listed earlier.
C8_LongerPrefixFirst ==
  LET table == yiddish_patterns.prefixes
  IN  \A i, j \in 1..Len(table) :
        (StartsWith(table[j], table[i]) /\ table[i] # table[j]) => j < i

\* C9: the rewritten form of a run never begins with a syllabic nun, a
\* syllabic langer nun or a syllabic lamed.
C9_NoInitialSyllabic ==
  op = "syllabify" =>
    \A i \in 1..Len(runs) :
      runs[i].subword # <<>> =>
        runs[i].subword[1] \notin {SyllabicNun, SyllabicLangerNun, SyllabicLamed}

\* C10: no line hyphenate returns is empty.
C10_NoEmptyLine ==
  op = "hyphenate" => \A i \in 1..Len(chunks) : chunks[i] # <<>>

====
